---- MODULE Spec2Model ----
(***************************************************************************)
(* Model of src/structured_values/index_allocation.rs of the ntfs crate:   *)
(* NtfsIndexAllocation (iter, record_from_vcn), NtfsIndexRecords (attach,  *)
(* next, Clone) and NtfsIndexRecordsAttached (detach, Iterator::next).     *)
(*                                                                         *)
(* The collaborators the file calls but does not define (the non-resident  *)
(* value stream, the index record parser, Vcn::offset and the byte source) *)
(* are modelled from their contract in the specification.                  *)
(***************************************************************************)
EXTENDS Integers, Sequences, FiniteSets, TLC

\* ------------------------------------------------------------------ bounds
\* Largest attribute length, in bytes.
MaxLen == 3
\* Largest index record size the index root reports (0 is included).
MaxRecordSize == 2
\* Largest VCN a caller asks record_from_vcn for.
MaxVcn == 2
\* Scaled-down i64::MAX: Vcn::offset overflows beyond it.
OffsetLimit == 3

\* Cluster sizes of the volume, in bytes (a power of two).
ClusterSizes == {1, 2}
\* VCNs a caller may request (Vcn is signed).
Vcns == (0 - 1)..MaxVcn
\* VCNs found in the headers of the records on the medium.
HeaderVcns == {0, 1}
\* On-disk byte positions of the attribute (NtfsNonResidentAttributeValue::position).
AttributePositions == {7}
\* Traversal cursors a caller holds (NtfsIndexRecords or NtfsIndexRecordsAttached).
Streams == {1, 2}
\* Byte sources (fs: &mut T) the caller owns; each has its own cursor.
ByteSources == {1}

VARIABLES
    medium,             \* what the storage holds at each byte offset of the attribute
    cluster_size,       \* the volume's cluster size (self.value.ntfs())
    index_record_size,  \* NtfsIndexRoot::index_record_size()
    allocation,         \* the NtfsIndexAllocation: [value]
    slots,              \* per stream: nothing, an NtfsIndexRecords, or an NtfsIndexRecordsAttached
    fs,                 \* per byte source: its cursor (absolute position on the medium)
    ret,                \* the last call and what it returned
    hist                \* per stream, for stating the properties: where it started, the
                        \* offsets of the records delivered and how many pulls have
                        \* reported "no more items" (counted up to 2)

vars == <<medium, cluster_size, index_record_size, allocation, slots, fs, ret, hist>>

\* ------------------------------------------------------------------ medium
\* A byte offset either starts a well-formed record header carrying a VCN, or
\* starts bytes that do not decode ("corrupt"), or cannot be read or reached
\* ("unreadable": a medium error at that byte).
Cells ==
    [state : {"record"}, vcn : HeaderVcns]
        \cup {[state |-> "corrupt", vcn |-> 0], [state |-> "unreadable", vcn |-> 0]}

\* ------------------------------------------------------------------ results
NoRecord == [vcn |-> 0, offset |-> 0 - 1, size |-> 0]

Ok(record) ==
    [kind |-> "ok", error |-> "", position |-> 0, vcn |-> 0, expected |-> 0,
     actual |-> 0, record |-> record]

Err(error) ==
    [kind |-> "err", error |-> error, position |-> 0, vcn |-> 0, expected |-> 0,
     actual |-> 0, record |-> NoRecord]

\* Option::None of NtfsIndexRecords::next
None ==
    [kind |-> "none", error |-> "", position |-> 0, vcn |-> 0, expected |-> 0,
     actual |-> 0, record |-> NoRecord]

\* NtfsError::VcnOutOfBoundsInIndexAllocation { position, vcn }
VcnOutOfBoundsInIndexAllocation(position, vcn) ==
    [Err("VcnOutOfBoundsInIndexAllocation") EXCEPT !.position = position, !.vcn = vcn]

\* NtfsError::VcnMismatchInIndexAllocation { position, expected, actual }
VcnMismatchInIndexAllocation(position, expected, actual) ==
    [Err("VcnMismatchInIndexAllocation") EXCEPT
        !.position = position, !.expected = expected, !.actual = actual]

\* ------------------------------------------------------------------ collaborators
\* Vcn::offset: the VCN times the cluster size, checked for overflow.
VcnOffset(vcn, cs) ==
    LET product == vcn * cs
    IN  IF product > OffsetLimit \/ product < 0 - OffsetLimit
        THEN [ok |-> FALSE, offset |-> 0]
        ELSE [ok |-> TRUE, offset |-> product]

\* NtfsNonResidentAttributeValue::seek(fs, SeekFrom::Current(n)): moves the
\* value's stream position (it may land at or beyond len) and the byte
\* source's cursor; fails, leaving the value where it was, when the target is
\* negative or is an unreadable byte of the attribute.
ValueSeekCurrent(cursor, value, n) ==
    LET target == value.stream_position + n
    IN  IF target < 0
        THEN [ok |-> FALSE, value |-> value, cursor |-> cursor]
        ELSE IF target < value.len /\ medium[target].state = "unreadable"
        THEN [ok |-> FALSE, value |-> value, cursor |-> cursor]
        ELSE [ok |-> TRUE,
              value |-> [value EXCEPT !.stream_position = target],
              cursor |-> value.position + target]

\* NtfsIndexRecord::new(fs, value, index_record_size): positions the byte
\* source at the value's stream position, reads index_record_size bytes and
\* decodes them. Reading fails on truncated data and on unreadable bytes;
\* decoding fails on a zero record size and on bytes that are no record.
IndexRecordNew(cursor, value, size) ==
    LET o == value.stream_position
        at == value.position + o
    IN  IF size = 0
        THEN [ok |-> FALSE, error |-> "RecordParseFailure", record |-> NoRecord,
              cursor |-> at]
        ELSE IF o + size > value.len
                \/ \E i \in o..(o + size - 1) : medium[i].state = "unreadable"
        THEN [ok |-> FALSE, error |-> "UnderlyingIOFailure", record |-> NoRecord,
              cursor |-> at]
        ELSE IF medium[o].state = "corrupt"
        THEN [ok |-> FALSE, error |-> "RecordParseFailure", record |-> NoRecord,
              cursor |-> at + size]
        ELSE [ok |-> TRUE, error |-> "",
              record |-> [vcn |-> medium[o].vcn, offset |-> o, size |-> size],
              cursor |-> at + size]

\* ------------------------------------------------------------------ NtfsIndexAllocation
\* NtfsIndexRecords::new
NtfsIndexRecords_new(value, size) ==
    [value |-> value, index_record_size |-> size]

\* iter taking the cluster size for the record size
iter_cluster(self, root_record_size) ==
    NtfsIndexRecords_new(self.value, cluster_size)

\* NtfsIndexAllocation::iter
iter(self, root_record_size) ==
    NtfsIndexRecords_new(self.value, root_record_size)

\* record_from_vcn with one line changed, as the table says:
\*   "unchecked"  returns the record without comparing its VCN (line 54)
\*   "inclusive"  tests stream_position > len (line 42)
\*   "swapped"    reports expected and actual the other way round (lines 57-58)
\*   "unscaled"   seeks by the VCN itself instead of vcn.offset(..) (line 39)
\*   "relative"   seeks from where the byte source's cursor stands instead of
\*                from the cloned value's position (lines 38-40)
\*   "whole"      the bounds test of line 42 asks for the whole record to lie
\*                inside the attribute
record_from_vcn_with(bug, self, cursor, root_record_size, vcn) ==
    LET value == IF bug = "relative"
                 THEN [self.value EXCEPT !.stream_position = cursor - self.value.position]
                 ELSE self.value
        offset == IF bug = "unscaled"
                  THEN [ok |-> TRUE, offset |-> vcn]
                  ELSE VcnOffset(vcn, cluster_size)
    IN  IF ~offset.ok
        THEN [result |-> Err("OffsetOverflow"), cursor |-> cursor]
        ELSE
        LET sought == ValueSeekCurrent(cursor, value, offset.offset)
        IN  IF ~sought.ok
            THEN [result |-> Err("UnderlyingIOFailure"), cursor |-> sought.cursor]
            ELSE IF CASE bug = "inclusive" ->
                            sought.value.stream_position > sought.value.len
                      [] bug = "whole" ->
                            sought.value.stream_position + root_record_size
                                > sought.value.len
                      [] OTHER ->
                            sought.value.stream_position >= sought.value.len
            THEN [result |-> VcnOutOfBoundsInIndexAllocation(self.value.position, vcn),
                  cursor |-> sought.cursor]
            ELSE
            LET made == IndexRecordNew(sought.cursor, sought.value, root_record_size)
            IN  IF ~made.ok
                THEN [result |-> Err(made.error), cursor |-> made.cursor]
                ELSE IF bug # "unchecked" /\ made.record.vcn # vcn
                THEN [result |->
                        IF bug = "swapped"
                        THEN VcnMismatchInIndexAllocation(
                                self.value.position, made.record.vcn, vcn)
                        ELSE VcnMismatchInIndexAllocation(
                                self.value.position, vcn, made.record.vcn),
                      cursor |-> made.cursor]
                ELSE [result |-> Ok(made.record), cursor |-> made.cursor]

record_from_vcn_unchecked(self, cursor, root_record_size, vcn) ==
    record_from_vcn_with("unchecked", self, cursor, root_record_size, vcn)

record_from_vcn_inclusive(self, cursor, root_record_size, vcn) ==
    record_from_vcn_with("inclusive", self, cursor, root_record_size, vcn)

record_from_vcn_swapped(self, cursor, root_record_size, vcn) ==
    record_from_vcn_with("swapped", self, cursor, root_record_size, vcn)

record_from_vcn_unscaled(self, cursor, root_record_size, vcn) ==
    record_from_vcn_with("unscaled", self, cursor, root_record_size, vcn)

record_from_vcn_relative(self, cursor, root_record_size, vcn) ==
    record_from_vcn_with("relative", self, cursor, root_record_size, vcn)

record_from_vcn_whole(self, cursor, root_record_size, vcn) ==
    record_from_vcn_with("whole", self, cursor, root_record_size, vcn)

\* NtfsIndexAllocation::record_from_vcn: the result and the byte source's cursor
\* after the call. self is only read.
record_from_vcn(self, cursor, root_record_size, vcn) ==
    LET value == self.value
        offset == VcnOffset(vcn, cluster_size)
    IN  IF ~offset.ok
        THEN [result |-> Err("OffsetOverflow"), cursor |-> cursor]
        ELSE
        LET sought == ValueSeekCurrent(cursor, value, offset.offset)
        IN  IF ~sought.ok
            THEN [result |-> Err("UnderlyingIOFailure"), cursor |-> sought.cursor]
            ELSE IF sought.value.stream_position >= sought.value.len
            THEN [result |-> VcnOutOfBoundsInIndexAllocation(self.value.position, vcn),
                  cursor |-> sought.cursor]
            ELSE
            LET made == IndexRecordNew(sought.cursor, sought.value, root_record_size)
            IN  IF ~made.ok
                THEN [result |-> Err(made.error), cursor |-> made.cursor]
                ELSE IF made.record.vcn # vcn
                THEN [result |-> VcnMismatchInIndexAllocation(
                                    self.value.position, vcn, made.record.vcn),
                      cursor |-> made.cursor]
                ELSE [result |-> Ok(made.record), cursor |-> made.cursor]

\* ------------------------------------------------------------------ NtfsIndexRecords
\* next with one line changed:
\*   stride   the bytes the seek of line 123 advances by
\*   swallow  a failure ends the iteration with None instead of Some(Err(..))
next_with(stride, swallow, self, cursor) ==
    IF self.value.stream_position >= self.value.len
    THEN [item |-> None, self |-> self, cursor |-> cursor]
    ELSE
    LET made == IndexRecordNew(cursor, self.value, self.index_record_size)
    IN  IF ~made.ok
        THEN [item |-> IF swallow THEN None ELSE Err(made.error), self |-> self,
              cursor |-> made.cursor]
        ELSE
        LET sought == ValueSeekCurrent(made.cursor, self.value, stride)
        IN  IF ~sought.ok
            THEN [item |-> IF swallow THEN None ELSE Err("UnderlyingIOFailure"),
                  self |-> self, cursor |-> sought.cursor]
            ELSE [item |-> Ok(made.record),
                  self |-> [self EXCEPT !.value = sought.value],
                  cursor |-> sought.cursor]

\* advances by two records
next_skip(self, cursor) == next_with(2 * self.index_record_size, FALSE, self, cursor)

\* does not advance
next_stay(self, cursor) == next_with(0, FALSE, self, cursor)

\* advances by one byte too many
next_overshoot(self, cursor) == next_with(self.index_record_size + 1, FALSE, self, cursor)

\* a failure silently ends the iteration
next_swallow(self, cursor) == next_with(self.index_record_size, TRUE, self, cursor)

\* the exhaustion test of line 109 with > for >=
next_strict(self, cursor) ==
    IF self.value.stream_position = self.value.len
    THEN [item |-> Err(IndexRecordNew(cursor, self.value, self.index_record_size).error),
          self |-> self,
          cursor |-> IndexRecordNew(cursor, self.value, self.index_record_size).cursor]
    ELSE next_with(self.index_record_size, FALSE, self, cursor)

\* the result of the seek of line 123 is dropped: the record is returned
\* whether or not the stream advanced
next_unchecked_seek(self, cursor) ==
    LET r == next_with(self.index_record_size, FALSE, self, cursor)
        made == IndexRecordNew(cursor, self.value, self.index_record_size)
    IN  IF self.value.stream_position < self.value.len /\ made.ok
        THEN [r EXCEPT !.item = Ok(made.record)]
        ELSE r

\* NtfsIndexRecords::next: the item, the stream after the call and the byte
\* source's cursor after the call.
next(self, cursor) ==
    IF self.value.stream_position >= self.value.len
    THEN [item |-> None, self |-> self, cursor |-> cursor]
    ELSE
    LET made == IndexRecordNew(cursor, self.value, self.index_record_size)
    IN  IF ~made.ok
        THEN [item |-> Err(made.error), self |-> self, cursor |-> made.cursor]
        ELSE
        LET sought == ValueSeekCurrent(made.cursor, self.value, self.index_record_size)
        IN  IF ~sought.ok
            THEN [item |-> Err("UnderlyingIOFailure"), self |-> self,
                  cursor |-> sought.cursor]
            ELSE [item |-> Ok(made.record),
                  self |-> [self EXCEPT !.value = sought.value],
                  cursor |-> sought.cursor]

\* NtfsIndexRecordsAttached::new
NtfsIndexRecordsAttached_new(f, index_records) ==
    [tag |-> "attached", fs |-> f, index_records |-> index_records]

\* attach wrapping a stream rewound to the start
attach_rewound(self, f) ==
    NtfsIndexRecordsAttached_new(f, [self EXCEPT !.value.stream_position = 0])

\* NtfsIndexRecords::attach
attach(self, f) ==
    NtfsIndexRecordsAttached_new(f, self)

\* detach handing back a stream rewound to the start
detach_rewound(self) ==
    [self.index_records EXCEPT !.value.stream_position = 0]

\* NtfsIndexRecordsAttached::detach
detach(self) ==
    self.index_records

\* ------------------------------------------------------------------ state
NoValue == [stream_position |-> 0, len |-> 0, position |-> 0]
Empty == [tag |-> "empty", fs |-> 0,
          index_records |-> [value |-> NoValue, index_record_size |-> 0]]
Detached(index_records) ==
    [tag |-> "detached", fs |-> 0, index_records |-> index_records]

\* A byte source lent to an attached adapter cannot be used by anyone else
\* until detach gives it back (it is held as &'a mut T).
Borrowed(f) == \E s \in Streams : slots[s].tag = "attached" /\ slots[s].fs = f

\* The caller numbers its streams in the order it creates them.
FirstFree(s) == \A u \in Streams : u < s => slots[u].tag # "empty"

NewHist(start) ==
    [start |-> start, delivered |-> <<>>, nones |-> 0]

\* A call and what it returned; after is the call made just before a detach.
Call(op, s, f, vcn, result) ==
    [op |-> op, stream |-> s, fs |-> f, vcn |-> vcn, result |-> result,
     after |-> IF op = "detach" /\ ret.op = "attach" /\ ret.stream = s
               THEN "attach" ELSE ""]

Init ==
    /\ cluster_size \in ClusterSizes
    /\ index_record_size \in 0..MaxRecordSize
    /\ \E len \in 0..MaxLen, position \in AttributePositions :
          /\ medium \in [0..(len - 1) -> Cells]
          /\ allocation = [value |-> [stream_position |-> 0, len |-> len,
                                      position |-> position]]
    /\ slots = [s \in Streams |-> Empty]
    /\ fs = [f \in ByteSources |-> 0]
    /\ ret = [op |-> "init", stream |-> 0, fs |-> 0, vcn |-> 0, result |-> None,
              after |-> ""]
    /\ hist = [s \in Streams |-> NewHist(0)]

\* ------------------------------------------------------------------ actions
\* let s = allocation.iter(&index_root)
Iterate(s) ==
    /\ slots[s].tag = "empty"
    /\ FirstFree(s)
    /\ slots' = [slots EXCEPT ![s] = Detached(iter(allocation, index_record_size))]
    /\ hist' = [hist EXCEPT ![s] = NewHist(allocation.value.stream_position)]
    /\ ret' = Call("iter", s, 0, 0, None)
    /\ UNCHANGED <<medium, cluster_size, index_record_size, allocation, fs>>

\* let t = s.clone()
Clone(s, t) ==
    /\ slots[s].tag = "detached"
    /\ slots[t].tag = "empty"
    /\ FirstFree(t)
    /\ slots' = [slots EXCEPT ![t] = slots[s]]
    /\ hist' = [hist EXCEPT ![t] = NewHist(slots[s].index_records.value.stream_position)]
    /\ ret' = Call("clone", t, 0, 0, None)
    /\ UNCHANGED <<medium, cluster_size, index_record_size, allocation, fs>>

Deliver(h, item) ==
    [h EXCEPT !.delivered = IF item.kind = "ok" THEN Append(@, item.record.offset) ELSE @,
              !.nones = IF item.kind = "none" /\ @ < 2 THEN @ + 1 ELSE @]

\* s.next(&mut f) where every stream shares one position with s
Pull_shared(s, f) ==
    /\ slots[s].tag = "detached"
    /\ ~Borrowed(f)
    /\ LET r == next(slots[s].index_records, fs[f])
       IN  /\ slots' = [t \in Streams |->
                          IF slots[t].tag = "empty"
                          THEN slots[t]
                          ELSE [slots[t] EXCEPT !.index_records = r.self]]
           /\ fs' = [fs EXCEPT ![f] = r.cursor]
           /\ ret' = Call("next", s, f, 0, r.item)
           /\ hist' = [hist EXCEPT ![s] = Deliver(@, r.item)]
    /\ UNCHANGED <<medium, cluster_size, index_record_size, allocation>>

\* s.next(&mut f)
Pull(s, f) ==
    /\ slots[s].tag = "detached"
    /\ ~Borrowed(f)
    /\ LET r == next(slots[s].index_records, fs[f])
       IN  /\ slots' = [slots EXCEPT ![s] = Detached(r.self)]
           /\ fs' = [fs EXCEPT ![f] = r.cursor]
           /\ ret' = Call("next", s, f, 0, r.item)
           /\ hist' = [hist EXCEPT ![s] = Deliver(@, r.item)]
    /\ UNCHANGED <<medium, cluster_size, index_record_size, allocation>>

\* let s = s.attach(&mut f)
Attach(s, f) ==
    /\ slots[s].tag = "detached"
    /\ ~Borrowed(f)
    /\ slots' = [slots EXCEPT ![s] = attach(slots[s].index_records, f)]
    /\ ret' = Call("attach", s, f, 0, None)
    /\ UNCHANGED <<medium, cluster_size, index_record_size, allocation, fs, hist>>

\* let s = s.detach()
Detach(s) ==
    /\ slots[s].tag = "attached"
    /\ slots' = [slots EXCEPT ![s] = Detached(detach(slots[s]))]
    /\ ret' = Call("detach", s, slots[s].fs, 0, None)
    /\ UNCHANGED <<medium, cluster_size, index_record_size, allocation, fs, hist>>

\* the adapter pulling from a copy of the wrapped stream: the item is
\* returned but the wrapped stream does not move
attached_next_copy(self, cursor) ==
    LET r == next(self.index_records, cursor)
    IN  [item |-> r.item, self |-> self, cursor |-> r.cursor]

\* Iterator::next of NtfsIndexRecordsAttached: the stream and the byte
\* source's cursor after the call, and the item.
attached_next(self, cursor) ==
    LET r == next(self.index_records, cursor)
    IN  [item |-> r.item,
         self |-> [self EXCEPT !.index_records = r.self],
         cursor |-> r.cursor]

\* s.next() on the attached adapter
AttachedNext(s) ==
    /\ slots[s].tag = "attached"
    /\ LET f == slots[s].fs
           r == attached_next(slots[s], fs[f])
       IN  /\ slots' = [slots EXCEPT ![s] = r.self]
           /\ fs' = [fs EXCEPT ![f] = r.cursor]
           /\ ret' = Call("next", s, f, 0, r.item)
           /\ hist' = [hist EXCEPT ![s] = Deliver(@, r.item)]
    /\ UNCHANGED <<medium, cluster_size, index_record_size, allocation>>

\* record_from_vcn seeking the handle's own value instead of a clone of it
Lookup_in_place(f, vcn) ==
    /\ ~Borrowed(f)
    /\ LET r == record_from_vcn(allocation, fs[f], index_record_size, vcn)
           offset == VcnOffset(vcn, cluster_size)
           sought == ValueSeekCurrent(fs[f], allocation.value, offset.offset)
       IN  /\ fs' = [fs EXCEPT ![f] = r.cursor]
           /\ ret' = Call("record_from_vcn", 0, f, vcn, r.result)
           /\ allocation' = [allocation EXCEPT
                                !.value = IF offset.ok THEN sought.value ELSE @]
    /\ UNCHANGED <<medium, cluster_size, index_record_size, slots, hist>>

\* allocation.record_from_vcn(&mut f, &index_root, vcn)
Lookup(f, vcn) ==
    /\ ~Borrowed(f)
    /\ LET r == record_from_vcn(allocation, fs[f], index_record_size, vcn)
       IN  /\ fs' = [fs EXCEPT ![f] = r.cursor]
           /\ ret' = Call("record_from_vcn", 0, f, vcn, r.result)
    /\ UNCHANGED <<medium, cluster_size, index_record_size, allocation, slots, hist>>

Next ==
    \/ \E s \in Streams : Iterate(s)
    \/ \E s \in Streams, t \in Streams : Clone(s, t)
    \/ \E s \in Streams, f \in ByteSources : Pull(s, f)
    \/ \E s \in Streams, f \in ByteSources : Attach(s, f)
    \/ \E s \in Streams : Detach(s)
    \/ \E s \in Streams : AttachedNext(s)
    \/ \E f \in ByteSources, vcn \in Vcns : Lookup(f, vcn)

Spec == Init /\ [][Next]_vars

\* A pull on s, direct or through the adapter.
PullAny(s) == (\E f \in ByteSources : Pull(s, f)) \/ AttachedNext(s)

\* The operations on streams; record_from_vcn, which never touches a stream,
\* is left out, and with it the choice of a cluster size and of the VCNs in
\* the record headers, which only record_from_vcn looks at.
InitTraversal ==
    /\ Init
    /\ cluster_size = 1
    /\ \A i \in DOMAIN medium : medium[i].vcn = 0

NextTraversal ==
    \/ \E s \in Streams : Iterate(s)
    \/ \E s \in Streams, t \in Streams : Clone(s, t)
    \/ \E s \in Streams : PullAny(s)
    \/ \E s \in Streams, f \in ByteSources : Attach(s, f)
    \/ \E s \in Streams : Detach(s)

\* The caller of a traversal keeps pulling: every stream is pulled again
\* whenever it can be (a detached stream cannot be pulled while its byte
\* source is lent to an adapter, hence strong fairness), and every adapter
\* is detached in the end, which gives the byte source back.
SpecTraversal ==
    /\ InitTraversal
    /\ [][NextTraversal]_vars
    /\ \A s \in Streams : SF_vars(PullAny(s)) /\ WF_vars(Detach(s))

\* ------------------------------------------------------------------ properties
Live(s) == slots[s].tag # "empty"
Records(s) == slots[s].index_records
Position(s) == Records(s).value.stream_position
RecordSize(s) == Records(s).index_record_size
Length == allocation.value.len
BasePosition == allocation.value.position

\* The last call was record_from_vcn.
LookedUp == ret.op = "record_from_vcn"
\* The byte offset the requested VCN resolves to, from the handle's position.
Resolved == allocation.value.stream_position + VcnOffset(ret.vcn, cluster_size).offset
\* What the record parser makes of the bytes at an offset of the attribute.
ParsedAt(offset) ==
    IndexRecordNew(0, [allocation.value EXCEPT !.stream_position = offset],
                   index_record_size)

\* The k-th of n records of a traversal from start is at start + (k - 1) * size.
Strides(start, n, size) == [k \in 1..n |-> start + (k - 1) * size]

\* The step is a pull on s, direct or through the adapter.
Pulled(s) == ret'.op = "next" /\ ret'.stream = s

\* C1: whenever record_from_vcn returns a record, the record is the one at
\* the offset the requested VCN resolves to, it lies within the attribute
\* (it starts at or after 0 and ends at or before len), and the VCN in its
\* header is the requested one.
C1_LookupReturnsTheRequestedRecord ==
    (LookedUp /\ ret.result.kind = "ok") =>
        /\ ret.result.record.vcn = ret.vcn
        /\ ret.result.record.offset = Resolved
        /\ 0 <= ret.result.record.offset
        /\ ret.result.record.offset < Length
        /\ ret.result.record.offset + ret.result.record.size <= Length

\* A lookup of VCN 1 returned the record at a non-zero offset.
C1_Witness ==
    /\ LookedUp
    /\ ret.result.kind = "ok"
    /\ ret.vcn = 1
    /\ ret.result.record.offset = 2

\* C2: once a stream that started at position 0 has reported "no more
\* items", the records it delivered are exactly floor(len / record size)
\* many, the k-th read at byte offset (k - 1) * record size.
C2_FullTraversalVisitsEveryRecord ==
    \A s \in Streams :
        (Live(s) /\ hist[s].start = 0 /\ hist[s].nones > 0) =>
            hist[s].delivered =
                Strides(0,
                        IF RecordSize(s) = 0 THEN 0 ELSE Length \div RecordSize(s),
                        RecordSize(s))

\* A traversal delivered three records and then reported "no more items".
C2_Witness ==
    \E s \in Streams :
        /\ Live(s)
        /\ hist[s].start = 0
        /\ hist[s].nones > 0
        /\ hist[s].delivered = <<0, 1, 2>>

\* C3: a lookup whose VCN resolves to a byte offset at or beyond len fails
\* with VcnOutOfBoundsInIndexAllocation carrying the attribute's position
\* and the requested VCN, whatever the medium holds.
C3_OutOfBoundsLookupIsReported ==
    (/\ LookedUp
     /\ VcnOffset(ret.vcn, cluster_size).ok
     /\ Resolved >= Length) =>
        ret.result = VcnOutOfBoundsInIndexAllocation(BasePosition, ret.vcn)

\* A lookup just past the end of a non-empty attribute was refused.
C3_Witness ==
    /\ LookedUp
    /\ VcnOffset(ret.vcn, cluster_size).ok
    /\ Length > 0
    /\ Resolved = Length
    /\ ret.result.error = "VcnOutOfBoundsInIndexAllocation"

\* C4: a lookup whose VCN resolves inside the attribute, where the record
\* parsed at that offset carries another VCN, fails with
\* VcnMismatchInIndexAllocation carrying the attribute's position, the
\* requested VCN as expected and the record's VCN as actual.
C4_MismatchedRecordIsReported ==
    (/\ LookedUp
     /\ VcnOffset(ret.vcn, cluster_size).ok
     /\ 0 <= Resolved
     /\ Resolved < Length
     /\ ParsedAt(Resolved).ok
     /\ ParsedAt(Resolved).record.vcn # ret.vcn) =>
        ret.result = VcnMismatchInIndexAllocation(
                        BasePosition, ret.vcn, ParsedAt(Resolved).record.vcn)

\* A lookup of VCN 1 found a record that says it is VCN 0.
C4_Witness ==
    /\ LookedUp
    /\ ret.vcn = 1
    /\ ret.result.error = "VcnMismatchInIndexAllocation"
    /\ ret.result.expected = 1
    /\ ret.result.actual = 0

\* C5: the records a stream has delivered are at consecutive record offsets
\* from where it started, in increasing order, and the stream stands right
\* after the last of them: none skipped, none delivered twice.
C5_SequencingIsStrict ==
    \A s \in Streams :
        Live(s) =>
            /\ hist[s].delivered =
                   Strides(hist[s].start, Len(hist[s].delivered), RecordSize(s))
            /\ Position(s) = hist[s].start + Len(hist[s].delivered) * RecordSize(s)
            /\ Len(hist[s].delivered) > 0 => RecordSize(s) > 0

\* An attached clone that started at offset 1 delivered the records at 1 and 2.
C5_Witness ==
    \E s \in Streams :
        /\ slots[s].tag = "attached"
        /\ hist[s].delivered = <<1, 2>>

C7_PositionIsAlignedAndInRange ==
    \A s \in Streams :
        Live(s) =>
            /\ 0 <= Position(s)
            /\ Position(s) <= Records(s).value.len
            /\ \E k \in 0..Records(s).value.len : Position(s) = k * RecordSize(s)

\* A pull failed on the truncated last record of an attribute whose length is
\* no multiple of the record size.
C7_Witness ==
    \E s \in Streams :
        /\ Live(s)
        /\ RecordSize(s) = 2
        /\ Records(s).value.len = 3
        /\ Position(s) = 2
        /\ ret.op = "next"
        /\ ret.stream = s
        /\ ret.result.kind = "err"

\* C8: a pull at a position inside the attribute where constructing the
\* record fails, or the seek past it fails, returns that failure as an error
\* item and leaves the stream as it was; pulling again at once returns the
\* same error item.
C8_FailedPullKeepsThePosition ==
    [][\A s \in Streams :
          Pulled(s) =>
              LET made == IndexRecordNew(0, Records(s).value, RecordSize(s))
                  sought == ValueSeekCurrent(0, Records(s).value, RecordSize(s))
              IN  /\ (Position(s) < Records(s).value.len /\ ~made.ok) =>
                         /\ ret'.result = Err(made.error)
                         /\ Records(s)' = Records(s)
                  /\ (Position(s) < Records(s).value.len /\ made.ok /\ ~sought.ok) =>
                         /\ ret'.result = Err("UnderlyingIOFailure")
                         /\ Records(s)' = Records(s)
                  /\ (ret.op = "next" /\ ret.stream = s /\ ret.result.kind = "err") =>
                         ret'.result = ret.result]_vars

\* A pull parsed the record at its position and then failed to seek past it.
C8_Witness ==
    \E s \in Streams :
        /\ Live(s)
        /\ ret.op = "next"
        /\ ret.stream = s
        /\ ret.result = Err("UnderlyingIOFailure")
        /\ IndexRecordNew(0, Records(s).value, RecordSize(s)).ok
        /\ Position(s) > 0

\* C9: attach keeps the stream (position, length, record size) inside the
\* adapter and does not touch the byte source; a detach that directly
\* follows hands that same stream back and does not touch the byte source.
C9_AttachDetachRoundTrip ==
    [][\A s \in Streams :
          /\ (ret'.op = "attach" /\ ret'.stream = s) =>
                 /\ slots'[s].tag = "attached"
                 /\ Records(s)' = Records(s)
                 /\ fs' = fs
          /\ (ret'.op = "detach" /\ ret'.stream = s /\ ret'.after = "attach") =>
                 /\ slots'[s] = Detached(Records(s))
                 /\ fs' = fs]_vars

\* An exhausted stream that had delivered records was attached and detached
\* at once.
C9_Witness ==
    \E s \in Streams :
        /\ ret.op = "detach"
        /\ ret.stream = s
        /\ ret.after = "attach"
        /\ Len(hist[s].delivered) > 0
        /\ Position(s) >= Records(s).value.len

\* C10: a pull on one stream changes no other stream and does not change
\* the handle.
C10_ClonesAreIndependent ==
    [][\A s \in Streams :
          Pulled(s) =>
              /\ \A t \in Streams \ {s} : slots'[t] = slots[t]
              /\ allocation' = allocation]_vars

\* Stream 1 was pulled past the position at which stream 2 was cloned from it.
C10_Witness ==
    /\ Live(1)
    /\ Live(2)
    /\ hist[2].start = 1
    /\ Position(2) = 1
    /\ Position(1) = 2
    /\ ret.op = "next"
    /\ ret.stream = 1
    /\ ret.result.kind = "ok"

\* The offsets of the records a stream has delivered.
DeliveredOffsets(s) == {hist[s].delivered[k] : k \in 1..Len(hist[s].delivered)}

\* C11: a lookup of a VCN that resolves to the offset of a record that a
\* traversal from the start has delivered, where that record carries this
\* VCN, returns that same record.
C11_LookupFindsDeliveredRecords ==
    (/\ LookedUp
     /\ VcnOffset(ret.vcn, cluster_size).ok
     /\ \E s \in Streams :
            /\ Live(s)
            /\ hist[s].start = 0
            /\ Resolved \in DeliveredOffsets(s)
     /\ ParsedAt(Resolved).record.vcn = ret.vcn) =>
        ret.result = Ok(ParsedAt(Resolved).record)

\* The second record of a traversal, at offset 2 with a cluster size of 2,
\* was looked up by its VCN 1.
C11_Witness ==
    /\ LookedUp
    /\ ret.vcn = 1
    /\ cluster_size = 2
    /\ ret.result.kind = "ok"
    /\ \E s \in Streams :
           /\ Live(s)
           /\ hist[s].start = 0
           /\ hist[s].delivered = <<0, 1, 2>>
           /\ ret.result.record.offset \in DeliveredOffsets(s)

\* C12: iter reads and writes nothing but the new stream: the handle, every
\* byte source, the medium and every other stream are as before, and the
\* new stream is detached, has the position and the length of the handle's
\* value and the record size of the index root.
C12_IterOnlyBuildsTheStream ==
    [][\A s \in Streams :
        (ret'.op = "iter" /\ ret'.stream = s) =>
            /\ allocation' = allocation
            /\ fs' = fs
            /\ medium' = medium
            /\ \A t \in Streams : t # s => slots'[t] = slots[t]
            /\ slots'[s].tag = "detached"
            /\ Position(s)' = allocation.value.stream_position
            /\ Records(s)'.value.len = allocation.value.len
            /\ Records(s)'.value.position = allocation.value.position
            /\ RecordSize(s)' = index_record_size]_vars

\* A second stream was made by iter after the first one had moved and the
\* byte source's cursor had been left inside the attribute; the record size
\* differs from the cluster size.
C12_Witness ==
    /\ ret.op = "iter"
    /\ ret.stream = 2
    /\ Position(1) = 2
    /\ Position(2) = 0
    /\ fs[1] = BasePosition + 2
    /\ RecordSize(2) = 1
    /\ cluster_size = 2

\* The record a pull on s constructs: the stream is not exhausted and
\* NtfsIndexRecord::new succeeds at its position.
Constructs(s) ==
    /\ Position(s) < Records(s).value.len
    /\ IndexRecordNew(0, Records(s).value, RecordSize(s)).ok
Constructed(s) == IndexRecordNew(0, Records(s).value, RecordSize(s)).record
\* The seek of line 123 that follows the construction succeeds.
Advances(s) == ValueSeekCurrent(0, Records(s).value, RecordSize(s)).ok

\* C13 as stated: whenever a pull constructs its record, it returns that
\* record and the position has advanced by exactly the record size.
C13_AdvanceIsUnconditional ==
    [][\A s \in Streams :
        (Pulled(s) /\ Constructs(s)) =>
            /\ ret'.result = Ok(Constructed(s))
            /\ Position(s)' = Position(s) + RecordSize(s)]_vars

\* C13: whenever a pull constructs its record and the seek that follows
\* succeeds, the pull returns that record and the position has advanced by
\* exactly the record size; when the seek fails, the pull returns the
\* seek's error instead of the record and the position is unchanged.
C13_AdvanceFollowsTheSeek ==
    [][\A s \in Streams :
        (Pulled(s) /\ Constructs(s)) =>
            IF Advances(s)
            THEN /\ ret'.result = Ok(Constructed(s))
                 /\ Position(s)' = Position(s) + RecordSize(s)
            ELSE /\ ret'.result = Err("UnderlyingIOFailure")
                 /\ Position(s)' = Position(s)]_vars

\* A pull returned the record of size 2 at offset 0 and the stream stands
\* at 2, short of the end.
C13_Witness ==
    \E s \in Streams :
        /\ Live(s)
        /\ ret.op = "next"
        /\ ret.stream = s
        /\ ret.result.kind = "ok"
        /\ ret.result.record.offset = 0
        /\ ret.result.record.size = 2
        /\ Position(s) = 2
        /\ Length = 3

\* C14: a pull through the adapter does to the wrapped stream, to the byte
\* source and to the caller exactly what a direct pull on that stream with
\* the same byte source does, and the stream stays attached to the same
\* byte source; detach then hands back the wrapped stream as the pulls
\* left it, and attach wraps the stream as the direct pulls left it. So an
\* attached and a detached stream of the same start that have delivered
\* equally many records have delivered the same records and stand at the
\* same position.
C14_AdapterPullsAsTheStreamDoes ==
    [][\A s \in Streams :
        /\ \A t \in Streams :
              (/\ slots[s].tag = "attached"
               /\ slots[t].tag = "detached"
               /\ hist[s].start = hist[t].start
               /\ Len(hist[s].delivered) = Len(hist[t].delivered)) =>
                  /\ hist[s].delivered = hist[t].delivered
                  /\ Records(s) = Records(t)
        /\ (Pulled(s) /\ slots[s].tag = "attached") =>
              LET direct == next(Records(s), fs[slots[s].fs])
              IN  /\ ret'.result = direct.item
                  /\ Records(s)' = direct.self
                  /\ fs' = [fs EXCEPT ![slots[s].fs] = direct.cursor]
                  /\ slots'[s].tag = "attached"
                  /\ slots'[s].fs = slots[s].fs
        /\ (ret'.stream = s /\ ret'.op \in {"attach", "detach"}) =>
              /\ Records(s)' = Records(s)
              /\ hist' = hist
              /\ fs' = fs]_vars

\* Two streams of the same start were pulled twice each, one through the
\* adapter, where it still is, and one directly: they delivered the same
\* records and stand at the same position.
C14_Witness ==
    \E s \in Streams, t \in Streams :
        /\ slots[s].tag = "attached"
        /\ slots[t].tag = "detached"
        /\ ret.op = "next"
        /\ ret.stream = s
        /\ hist[s] = hist[t]
        /\ Len(hist[s].delivered) = 2
        /\ Records(s) = Records(t)

\* C15: record_from_vcn, whether it returns a record or an error, leaves
\* the handle, every stream (its position and what it has delivered) and
\* the medium as they were; and a lookup that repeats the one before it
\* returns the same result.
C15_LookupLeavesTraversalsAlone ==
    [][ret'.op = "record_from_vcn" =>
        /\ allocation' = allocation
        /\ slots' = slots
        /\ hist' = hist
        /\ medium' = medium
        /\ (ret.op = "record_from_vcn" /\ ret.vcn = ret'.vcn) =>
              ret'.result = ret.result]_vars

\* In the middle of a traversal that has delivered one record, a lookup
\* failed: the stream stands where its pull left it, the byte source's
\* cursor stands elsewhere and the handle is at its start.
C15_Witness ==
    /\ LookedUp
    /\ ret.result.kind = "err"
    /\ Live(1)
    /\ hist[1].delivered = <<0>>
    /\ Position(1) = 1
    /\ Length = 3
    /\ fs[1] # BasePosition + Position(1)
    /\ allocation.value.stream_position = 0

\* A pull on s fails where s stands, in the construction or in the seek.
Fails(s) == Position(s) < Records(s).value.len /\ ~(Constructs(s) /\ Advances(s))

\* C16: a stream with a record size of at least 1 that keeps being pulled
\* comes to a pull that fails or is told "no more items", standing at or
\* beyond the end.
C16_TraversalTerminates ==
    \A s \in Streams :
        (Live(s) /\ RecordSize(s) >= 1) ~>
            (Fails(s) \/ (hist[s].nones > 0 /\ Position(s) >= Length))

\* A stream with record size 1 was told "no more items" after delivering
\* all three records, none of its pulls having failed.
C16_Witness ==
    \E s \in Streams :
        /\ Live(s)
        /\ RecordSize(s) = 1
        /\ ret.op = "next"
        /\ ret.stream = s
        /\ ret.result = None
        /\ hist[s].nones = 1
        /\ hist[s].delivered = <<0, 1, 2>>
        /\ ~Fails(s)

\* Places an earlier call can have left a byte source's cursor: the start
\* of the medium, the start of the attribute, its end.
Cursors == {0, BasePosition, BasePosition + Length}

C18_BoundsTestLooksAtTheStartOnly ==
    (LookedUp /\ VcnOffset(ret.vcn, cluster_size).ok) =>
        /\ (ret.result.error = "VcnOutOfBoundsInIndexAllocation") <=> (Resolved >= Length)
        /\ Resolved >= Length => fs[ret.fs] = BasePosition + Resolved
        /\ (/\ ValueSeekCurrent(0, allocation.value,
                                VcnOffset(ret.vcn, cluster_size).offset).ok
            /\ Resolved < Length
            /\ Resolved + index_record_size > Length) =>
               /\ ~ParsedAt(Resolved).ok
               /\ ret.result = Err(ParsedAt(Resolved).error)
               /\ fs[ret.fs] = ParsedAt(Resolved).cursor

\* A lookup resolved to offset 2 of an attribute of length 3 with a record
\* size of 2, where a record header is; it returned the error of the
\* truncated read.
C18_Witness ==
    /\ LookedUp
    /\ Length = 3
    /\ index_record_size = 2
    /\ VcnOffset(ret.vcn, cluster_size).ok
    /\ Resolved = 2
    /\ medium[2].state = "record"
    /\ ret.result = Err("UnderlyingIOFailure")

====
